---- MODULE Spec2Model ----
(***************************************************************************)
(* Vote counter (src/app.py): a transcript of chat-like messages is read,  *)
(* segmented into per-author blocks, each block parsed into a Message      *)
(* (author, timestamp, topics, votes), the topics flattened into report    *)
(* rows, sorted and written out.                                           *)
(*                                                                         *)
(* A text is a sequence of one-character strings; a line is a text with no *)
(* "\n" in it.  The run of main() is one sequential process whose position *)
(* is pc; the loops of the segmenter and of the parser advance one         *)
(* iteration per step.                                                     *)
(***************************************************************************)
EXTENDS Integers, Sequences, FiniteSets, TLC

VARIABLES
  pc,             \* position of main(): see the actions
  file_lines,     \* the input file on disk, as its "\n"-separated raw lines
  content,        \* parse_file: what file.read() returned
  lines,          \* _split_into_message_blocks: stripped non-blank lines
  blocks,         \* _split_into_message_blocks: blocks closed so far
  current_block,  \* _split_into_message_blocks: lines of the open block
  i,              \* _split_into_message_blocks: loop index (0-based)
  message_blocks, \* parse_file: the segmenter's result
  b,              \* parse_file: number of blocks already handed to the parser
  plines,         \* _parse_message_block: lines of the block
  author,         \* _parse_message_block
  timestamp,      \* _parse_message_block
  topics,         \* _parse_message_block: dict, as pairs in insertion order
  votes,          \* _parse_message_block: dict, as pairs in insertion order
  pi,             \* _parse_message_block: scan index i (0-based)
  messages,       \* self.messages
  all_topics,     \* self.all_topics
  summary,        \* what print_summary printed
  csv_file,       \* the output file on disk
  read_result,    \* outcome of open/read of the input file
  write_result,   \* outcome of open/write of the output file
  exit_code       \* the process's exit status once it has ended

vars == <<pc, file_lines, content, lines, blocks, current_block, i,
          message_blocks, b, plines, author, timestamp, topics, votes, pi,
          messages, all_topics, summary, csv_file, read_result, write_result,
          exit_code>>

-----------------------------------------------------------------------------
(* Characters and the str methods the program uses.                        *)

NL == "\n"

IsDigit(c) == c \in {"0", "1", "2", "3", "4", "5", "6", "7", "8", "9"}

\* str.strip() with no argument removes these (among the characters modelled)
IsSpace(c) == c \in {" ", "\t", "\r", NL}

DigitVal(c) ==
  CASE c = "0" -> 0 [] c = "1" -> 1 [] c = "2" -> 2 [] c = "3" -> 3
    [] c = "4" -> 4 [] c = "5" -> 5 [] c = "6" -> 6 [] c = "7" -> 7
    [] c = "8" -> 8 [] c = "9" -> 9

\* ord(c): Python compares str by code point
Ord(c) ==
  CASE c = "\t" -> 9 [] c = NL -> 10 [] c = "\r" -> 13 [] c = " " -> 32
    [] c = "-" -> 45 [] c = ":" -> 58
    [] IsDigit(c) -> 48 + DigitVal(c)
    [] c = "A" -> 65 [] c = "B" -> 66 [] c = "F" -> 70 [] c = "M" -> 77
    [] c = "P" -> 80 [] c = "R" -> 82 [] c = "W" -> 87
    [] c = "a" -> 97 [] c = "b" -> 98 [] c = "c" -> 99 [] c = "d" -> 100
    [] c = "e" -> 101 [] c = "i" -> 105 [] c = "k" -> 107 [] c = "l" -> 108
    [] c = "m" -> 109 [] c = "n" -> 110 [] c = "o" -> 111 [] c = "r" -> 114
    [] c = "t" -> 116 [] c = "x" -> 120 [] c = "y" -> 121 [] c = "z" -> 122

Min(x, y) == IF x <= y THEN x ELSE y

\* number of leading white-space characters of s
RECURSIVE LeadingSpaces(_)
LeadingSpaces(s) ==
  IF s = <<>> \/ ~IsSpace(Head(s)) THEN 0 ELSE 1 + LeadingSpaces(Tail(s))

\* number of trailing white-space characters of s
RECURSIVE TrailingSpaces(_)
TrailingSpaces(s) ==
  IF s = <<>> \/ ~IsSpace(s[Len(s)]) THEN 0
  ELSE 1 + TrailingSpaces(SubSeq(s, 1, Len(s) - 1))

\* s.strip()
Strip(s) ==
  LET l == LeadingSpaces(s)
  IN  IF l = Len(s) THEN <<>> ELSE SubSeq(s, l + 1, Len(s) - TrailingSpaces(s))

\* s.find('\n') as a 1-based position, 0 when s holds no "\n"
FirstNL(s) ==
  IF \E k \in 1..Len(s) : s[k] = NL
  THEN CHOOSE k \in 1..Len(s) : s[k] = NL /\ \A j \in 1..(k - 1) : s[j] # NL
  ELSE 0

\* s.split('\n'): always at least one piece
RECURSIVE SplitNL(_)
SplitNL(s) ==
  LET k == FirstNL(s)
  IN  IF k = 0 THEN <<s>>
      ELSE <<SubSeq(s, 1, k - 1)>> \o SplitNL(SubSeq(s, k + 1, Len(s)))

\* '\n'.join(ls)
RECURSIVE JoinNL(_)
JoinNL(ls) ==
  IF ls = <<>> THEN <<>>
  ELSE IF Len(ls) = 1 THEN ls[1]
  ELSE ls[1] \o <<NL>> \o JoinNL(Tail(ls))

\* [line.strip() for line in text.split('\n') if line.strip()]
RECURSIVE StripAll(_)
StripAll(ls) ==
  IF ls = <<>> THEN <<>>
  ELSE LET s == Strip(Head(ls))
       IN  (IF s = <<>> THEN <<>> ELSE <<s>>) \o StripAll(Tail(ls))

StrippedLines(text) == StripAll(SplitNL(text))

\* length of the run of digits of s that starts at position k (1-based)
RECURSIVE DigitRun(_, _)
DigitRun(s, k) ==
  IF k > Len(s) \/ ~IsDigit(s[k]) THEN 0 ELSE 1 + DigitRun(s, k + 1)

\* length of the run of white space of s that starts at position k
RECURSIVE SpaceRun(_, _)
SpaceRun(s, k) ==
  IF k > Len(s) \/ ~IsSpace(s[k]) THEN 0 ELSE 1 + SpaceRun(s, k + 1)

\* int() of a run of ASCII digits
RECURSIVE DigitsToInt(_)
DigitsToInt(s) ==
  IF s = <<>> THEN 0
  ELSE 10 * DigitsToInt(SubSeq(s, 1, Len(s) - 1)) + DigitVal(s[Len(s)])

\* s.isdigit()
StrIsDigit(s) == s # <<>> /\ DigitRun(s, 1) = Len(s)

\* int(s) succeeds: white space stripped, an optional sign, then digits
IntBody(s) ==
  LET t == Strip(s)
  IN  IF t # <<>> /\ t[1] \in {"+", "-"} THEN Tail(t) ELSE t

IntParses(s) == StrIsDigit(IntBody(s))

\* int(s), where it succeeds
IntValue(s) ==
  LET t == Strip(s)
      v == DigitsToInt(IntBody(s))
  IN  IF t # <<>> /\ t[1] = "-" THEN 0 - v ELSE v

\* s1 < s2 for str: by code point, a proper prefix first
RECURSIVE StrLess(_, _)
StrLess(s1, s2) ==
  IF s2 = <<>> THEN FALSE
  ELSE IF s1 = <<>> THEN TRUE
  ELSE IF Ord(Head(s1)) # Ord(Head(s2)) THEN Ord(Head(s1)) < Ord(Head(s2))
  ELSE StrLess(Tail(s1), Tail(s2))

-----------------------------------------------------------------------------
(* The regular expressions, each matched as re.match does: anchored at the *)
(* start of the line, and at its end only where the pattern ends in $.     *)

\* r'^\d+[-:]'  (line 87)
MatchDigitsSep(line) ==
  LET n == DigitRun(line, 1)
  IN  n >= 1 /\ Len(line) > n /\ line[n + 1] \in {"-", ":"}

\* r'^:\d+:'  (line 88)
MatchVotePrefix(line) ==
  /\ line # <<>>
  /\ line[1] = ":"
  /\ LET n == DigitRun(line, 2)
     IN  n >= 1 /\ Len(line) >= n + 2 /\ line[n + 2] = ":"

\* r'\d{1,2}:\d{2}\s*(AM|PM)' matched at the start (lines 89, 119): the
\* length of the match, 0 when there is none
TimeMatchLen(line) ==
  LET d == DigitRun(line, 1)
  IN  IF d \in {1, 2} /\ Len(line) >= d + 3 /\ line[d + 1] = ":"
         /\ IsDigit(line[d + 2]) /\ IsDigit(line[d + 3])
      THEN LET k == d + 4 + SpaceRun(line, d + 4)
           IN  IF Len(line) >= k + 1 /\ line[k] \in {"A", "P"} /\ line[k + 1] = "M"
               THEN k + 1 ELSE 0
      ELSE 0

MatchTime(line) == TimeMatchLen(line) > 0

\* r'^(\d+)-(.+)$'  (line 144)
MatchTopic(line) ==
  LET n == DigitRun(line, 1)
  IN  n >= 1 /\ Len(line) >= n + 2 /\ line[n + 1] = "-"

TopicNum(line) == DigitsToInt(SubSeq(line, 1, DigitRun(line, 1)))

TopicSubject(line) == Strip(SubSeq(line, DigitRun(line, 1) + 2, Len(line)))

\* r'^:(\d+):$'  (line 152)
MatchVote(line) ==
  /\ line # <<>>
  /\ line[1] = ":"
  /\ LET n == DigitRun(line, 2)
     IN  n >= 1 /\ Len(line) = n + 2 /\ line[n + 2] = ":"

VoteNum(line) == DigitsToInt(SubSeq(line, 2, DigitRun(line, 2) + 1))

-----------------------------------------------------------------------------
(* dict, as a sequence of <<key, value>> pairs in insertion order: an      *)
(* assignment to a key already present keeps the key's position.           *)

HasKey(d, k) == \E n \in 1..Len(d) : d[n][1] = k

\* a slip: an entry already present is kept (dict.setdefault)
DictSetKeepsFirst(d, k, v) == IF HasKey(d, k) THEN d ELSE Append(d, <<k, v>>)

DictSet(d, k, v) ==
  IF HasKey(d, k)
  THEN [n \in 1..Len(d) |-> IF d[n][1] = k THEN <<k, v>> ELSE d[n]]
  ELSE Append(d, <<k, v>>)

\* d.get(k, default)
DictGet(d, k, default) ==
  IF HasKey(d, k) THEN d[CHOOSE n \in 1..Len(d) : d[n][1] = k][2] ELSE default

-----------------------------------------------------------------------------
(* _split_into_message_blocks                                              *)

\* the variant without the test of line 90: a count line looks like a name
LooksLikeNewNameNoCountTest(line) ==
  /\ ~MatchDigitsSep(line)
  /\ ~MatchVotePrefix(line)
  /\ ~MatchTime(line)

\* lines 87-90: the line "looks like a new name"
LooksLikeNewName(line) ==
  /\ ~MatchDigitsSep(line)
  /\ ~MatchVotePrefix(line)
  /\ ~MatchTime(line)
  /\ ~StrIsDigit(line)

\* lines 86-96: the loop body's effect on (blocks, current_block)
StartsNewBlock(cur, line) == cur # <<>> /\ LooksLikeNewName(line)

-----------------------------------------------------------------------------
(* _parse_message_block                                                    *)

MinBlockLines == 2
TimestampScanEnd == 4

\* an off-by-one slip: the scan starts at the timestamp line
ScanFromIndexOne == MinBlockLines - 1

\* line 138
FirstScanIndex == 2

\* a slip in the comparison: a block of exactly two lines is skipped too
TooShortInclusive(ls) == Len(ls) <= MinBlockLines

\* line 110
TooShort(ls) == Len(ls) < MinBlockLines

Unknown == <<"U", "n", "k", "n", "o", "w", "n">>

\* lines 125-128: the first of lines[1..min(4, len)-1] that starts with a
\* timestamp (j is the 0-based index), "Unknown" when none does
RECURSIVE ScanForTimestamp(_, _)
ScanForTimestamp(ls, j) ==
  IF j >= Min(TimestampScanEnd, Len(ls)) THEN Unknown
  ELSE IF MatchTime(ls[j + 1]) THEN SubSeq(ls[j + 1], 1, TimeMatchLen(ls[j + 1]))
  ELSE ScanForTimestamp(ls, j + 1)

\* lines 119-130
ParseTimestamp(ls) ==
  IF MatchTime(ls[2]) THEN SubSeq(ls[2], 1, TimeMatchLen(ls[2]))
  ELSE ScanForTimestamp(ls, 1)

\* lines 157-164: the vote marker at 0-based index k has a count after it
HasVoteCount(ls, k) == k + 1 < Len(ls) /\ IntParses(ls[k + 2])

\* lines 144-148: topics after the line at 0-based index k was evaluated
TopicsAfter(tp, ls, k) ==
  LET line == ls[k + 1]
  IN  IF MatchTopic(line) THEN DictSet(tp, TopicNum(line), TopicSubject(line))
      ELSE tp

\* lines 152-160: votes after the line at 0-based index k was evaluated
VotesAfter(vt, ls, k) ==
  LET line == ls[k + 1]
  IN  IF MatchVote(line) /\ HasVoteCount(ls, k)
      THEN DictSet(vt, VoteNum(line), IntValue(ls[k + 2]))
      ELSE vt

\* a slip: line 162 moved out of the try, the line after a marker is always
\* skipped
NextScanIndexAlwaysSkips(ls, k) == IF MatchVote(ls[k + 1]) THEN k + 2 ELSE k + 1

\* lines 162, 168: the scan index after the line at index k was evaluated
NextScanIndex(ls, k) ==
  IF MatchVote(ls[k + 1]) /\ HasVoteCount(ls, k) THEN k + 2 ELSE k + 1

-----------------------------------------------------------------------------
(* process_messages                                                        *)

\* a slip: the votes of all messages looked up as one table
TopicRowSharedVotes(m, n) ==
  [creator_name |-> m.author,
   topic_number |-> m.topics[n][1],
   subject      |-> m.topics[n][2],
   votes        |-> LET all == {m.votes} \cup {messages[k].votes : k \in 1..Len(messages)}
                        has == {d \in all : HasKey(d, m.topics[n][1])}
                    IN  IF has = {} THEN 0
                        ELSE DictGet(CHOOSE d \in has : TRUE, m.topics[n][1], 0)]

\* lines 179-186
TopicRow(m, n) ==
  [creator_name |-> m.author,
   topic_number |-> m.topics[n][1],
   subject      |-> m.topics[n][2],
   votes        |-> DictGet(m.votes, m.topics[n][1], 0)]

\* lines 178-187: the rows of one message, in the order of its topics
MessageRows(m) == [n \in 1..Len(m.topics) |-> TopicRow(m, n)]

\* lines 177-187
RECURSIVE AllRows(_)
AllRows(ms) ==
  IF ms = <<>> THEN <<>> ELSE MessageRows(Head(ms)) \o AllRows(Tail(ms))

\* a slip: the key is -votes alone
KeyLessVotesOnly(x, y) == 0 - x.votes < 0 - y.votes

\* line 190: key(x) < key(y) for key = (-votes, creator_name)
KeyLess(x, y) ==
  \/ 0 - x.votes < 0 - y.votes
  \/ x.votes = y.votes /\ StrLess(x.creator_name, y.creator_name)

\* x put into the sorted s before the first row whose key is greater
RECURSIVE InsertRow(_, _)
InsertRow(s, x) ==
  IF s = <<>> THEN <<x>>
  ELSE IF KeyLess(x, Head(s)) THEN <<x>> \o s
  ELSE <<Head(s)>> \o InsertRow(Tail(s), x)

\* line 190: list.sort (stable; an insertion sort at these lengths)
RECURSIVE SortRows(_)
SortRows(s) ==
  IF s = <<>> THEN <<>>
  ELSE InsertRow(SortRows(SubSeq(s, 1, Len(s) - 1)), s[Len(s)])

-----------------------------------------------------------------------------
(* print_summary and generate_csv                                          *)

SummaryRows == 10
SubjectWidth == 40

\* line 231
ShownSubject(s) ==
  IF Len(s) > SubjectWidth THEN SubSeq(s, 1, SubjectWidth) \o <<".", ".", ".">>
  ELSE s

\* lines 221-235
SummaryOf(rows, nmsg) ==
  IF rows = <<>> THEN [found |-> 0, messages |-> 0, shown |-> <<>>, more |-> 0]
  ELSE [found    |-> Len(rows),
        messages |-> nmsg,
        shown    |-> [n \in 1..Min(SummaryRows, Len(rows)) |->
                        <<rows[n].creator_name, rows[n].topic_number,
                          rows[n].votes, ShownSubject(rows[n].subject)>>],
        more     |-> IF Len(rows) > SummaryRows THEN Len(rows) - SummaryRows ELSE 0]

\* lines 205-210: one row of the file
CsvRow(t) == <<t.creator_name, t.topic_number, t.votes, t.subject>>

CsvRows(rows) == [n \in 1..Len(rows) |-> CsvRow(rows[n])]

-----------------------------------------------------------------------------
(* The input files: up to MaxFragments fragments, each a few raw lines.    *)

MaxFragments == 3

OneName ==
  <<<<"A", "n", "n">>>>

OnePadded ==
  <<<<" ", "B", "o", "b", "\r">>>>

OneBlank ==
  <<<<" ">>>>

OneTime ==
  <<<<"9", ":", "3", "0", " ", "A", "M">>>>

OneTopic ==
  <<<<"1", "-", "A">>>>

TwoTopics ==
  <<<<"0", "2", "-", " ", "B">>,
    <<"1", "-", "A">>>>

OneMarker ==
  <<<<":", "1", ":">>>>

OneCount ==
  <<<<"5">>>>

OneDigitsColon ==
  <<<<"3", ":", "x">>>>

OneMarkerTail ==
  <<<<":", "2", ":", "x">>>>

HeadAnn ==
  <<<<"A", "n", "n">>,
    <<"9", ":", "3", "0", " ", "A", "M">>>>

HeadBob ==
  <<<<"B", "o", "b">>,
    <<"1", "0", ":", "0", "5", "P", "M">>>>

VoteOne ==
  <<<<":", "1", ":">>,
    <<"5">>>>

BobMsg ==
  <<<<"B", "o", "b">>,
    <<"1", "0", ":", "0", "5", "P", "M">>,
    <<"1", "-", "A">>,
    <<":", "2", ":">>,
    <<"5">>>>

ExampleAlice ==
  <<<<"A", "l", "i", "c", "e">>,
    <<"9", ":", "3", "0", " ", "A", "M">>,
    <<"1", "-", "P", "i", "z", "z", "a", " ", "F", "r", "i", "d", "a", "y">>,
    <<":", "1", ":">>,
    <<"1", "2">>,
    <<"2", "-", "R", "e", "m", "o", "t", "e", " ", "W", "o", "r", "k">>>>

ExampleLate ==
  <<<<"A", "l", "i", "c", "e">>,
    <<"1", "-", "P", "i", "z", "z", "a">>,
    <<":", "1", ":">>,
    <<"5">>>>

Fragments ==
  {OneName, OnePadded, OneBlank, OneTime, OneTopic, TwoTopics, OneMarker,
   OneCount, OneDigitsColon, OneMarkerTail, HeadAnn, HeadBob, VoteOne,
   BobMsg, ExampleAlice, ExampleLate}

RECURSIVE Flatten(_)
Flatten(ss) == IF ss = <<>> THEN <<>> ELSE Head(ss) \o Flatten(Tail(ss))

-----------------------------------------------------------------------------
Init ==
  /\ pc = "main"
  /\ \E n \in 0..MaxFragments : \E f \in [1..n -> Fragments] :
       file_lines = Flatten(f)
  /\ content = <<>>
  /\ lines = <<>>
  /\ blocks = <<>>
  /\ current_block = <<>>
  /\ i = 0
  /\ message_blocks = <<>>
  /\ b = 0
  /\ plines = <<>>
  /\ author = <<>>
  /\ timestamp = <<>>
  /\ topics = <<>>
  /\ votes = <<>>
  /\ pi = 0
  /\ messages = <<>>
  /\ all_topics = <<>>
  /\ summary = <<>>
  /\ csv_file = [written |-> FALSE, rows |-> <<>>]
  /\ read_result = "pending"
  /\ write_result = "pending"
  /\ exit_code = <<>>

segmenter_vars == <<lines, blocks, current_block, i>>
parser_vars == <<plines, author, timestamp, topics, votes, pi>>
report_vars == <<all_topics, summary, csv_file, write_result>>

\* parse_file, lines 52-57 and 75-79: the file is read and the segmenter
\* is entered
ReadFile ==
  /\ pc = "main"
  /\ read_result' = "ok"
  /\ content' = JoinNL(file_lines)
  /\ lines' = StrippedLines(content')
  /\ blocks' = <<>>
  /\ current_block' = <<>>
  /\ i' = 0
  /\ pc' = "segment"
  /\ UNCHANGED <<file_lines, message_blocks, b, parser_vars, messages,
                 report_vars, exit_code>>

\* parse_file, lines 66-68: the file does not exist
ReadNotFound ==
  /\ pc = "main"
  /\ read_result' = "not_found"
  /\ exit_code' = <<1>>
  /\ pc' = "exit"
  /\ UNCHANGED <<file_lines, content, segmenter_vars, message_blocks, b,
                 parser_vars, messages, report_vars>>

\* a slip: line 71 left out, the error is logged and main goes on
ReadErrorGoesOn ==
  /\ pc = "main"
  /\ read_result' = "error"
  /\ pc' = "process"
  /\ UNCHANGED <<file_lines, content, segmenter_vars, message_blocks, b,
                 parser_vars, messages, report_vars, exit_code>>

\* parse_file, lines 69-71: any other failure of open or read
ReadError ==
  /\ pc = "main"
  /\ read_result' = "error"
  /\ exit_code' = <<1>>
  /\ pc' = "exit"
  /\ UNCHANGED <<file_lines, content, segmenter_vars, message_blocks, b,
                 parser_vars, messages, report_vars>>

\* _split_into_message_blocks, lines 81-98: one iteration of the loop
SplitStep ==
  /\ pc = "segment"
  /\ i < Len(lines)
  /\ LET line == lines[i + 1]
     IN  IF StartsNewBlock(current_block, line)
         THEN /\ blocks' = Append(blocks, JoinNL(current_block))
              /\ current_block' = <<line>>
         ELSE /\ current_block' = Append(current_block, line)
              /\ blocks' = blocks
  /\ i' = i + 1
  /\ UNCHANGED <<pc, file_lines, content, lines, message_blocks, b,
                 parser_vars, messages, report_vars, read_result, exit_code>>

\* a slip: lines 101-102 left out, the open block is never added
SplitReturnNoFlush ==
  /\ pc = "segment"
  /\ i >= Len(lines)
  /\ message_blocks' = blocks
  /\ b' = 0
  /\ pc' = "blocks"
  /\ UNCHANGED <<file_lines, content, lines, blocks, current_block, i,
                 parser_vars, messages, report_vars, read_result, exit_code>>

\* _split_into_message_blocks, lines 100-104, and parse_file, line 57: the
\* last block is added and the blocks returned
SplitReturn ==
  /\ pc = "segment"
  /\ i >= Len(lines)
  /\ blocks' = IF current_block # <<>>
               THEN Append(blocks, JoinNL(current_block)) ELSE blocks
  /\ message_blocks' = blocks'
  /\ b' = 0
  /\ pc' = "blocks"
  /\ UNCHANGED <<file_lines, content, lines, current_block, i, parser_vars,
                 messages, report_vars, read_result, exit_code>>

\* parse_file, lines 59-61, and _parse_message_block, lines 108-112: a block
\* of fewer than two lines gives None and no message
SkipBlock ==
  /\ pc = "blocks"
  /\ b < Len(message_blocks)
  /\ TooShort(StrippedLines(message_blocks[b + 1]))
  /\ b' = b + 1
  /\ UNCHANGED <<pc, file_lines, content, segmenter_vars, message_blocks,
                 parser_vars, messages, report_vars, read_result, exit_code>>

\* parse_file, lines 59-60, and _parse_message_block, lines 108-138: the
\* parser is entered with the next block
EnterBlock ==
  /\ pc = "blocks"
  /\ b < Len(message_blocks)
  /\ LET ls == StrippedLines(message_blocks[b + 1])
     IN  /\ ~TooShort(ls)
         /\ plines' = ls
         /\ author' = ls[1]
         /\ timestamp' = ParseTimestamp(ls)
  /\ topics' = <<>>
  /\ votes' = <<>>
  /\ pi' = FirstScanIndex
  /\ pc' = "scan"
  /\ UNCHANGED <<file_lines, content, segmenter_vars, message_blocks, b,
                 messages, report_vars, read_result, exit_code>>

\* _parse_message_block, lines 139-168: one iteration of the scan
ScanStep ==
  /\ pc = "scan"
  /\ pi < Len(plines)
  /\ topics' = TopicsAfter(topics, plines, pi)
  /\ votes' = VotesAfter(votes, plines, pi)
  /\ pi' = NextScanIndex(plines, pi)
  /\ UNCHANGED <<pc, file_lines, content, segmenter_vars, message_blocks, b,
                 plines, author, timestamp, messages, report_vars,
                 read_result, exit_code>>

\* _parse_message_block, line 171, and parse_file, lines 61-62
ScanReturn ==
  /\ pc = "scan"
  /\ pi >= Len(plines)
  /\ messages' = Append(messages, [author |-> author, timestamp |-> timestamp,
                                   topics |-> topics, votes |-> votes])
  /\ b' = b + 1
  /\ pc' = "blocks"
  /\ UNCHANGED <<file_lines, content, segmenter_vars, message_blocks,
                 parser_vars, report_vars, read_result, exit_code>>

\* parse_file, line 64: every block was handled
ParseFileReturn ==
  /\ pc = "blocks"
  /\ b >= Len(message_blocks)
  /\ pc' = "process"
  /\ UNCHANGED <<file_lines, content, segmenter_vars, message_blocks, b,
                 parser_vars, messages, report_vars, read_result, exit_code>>

\* process_messages, lines 175-192: the rows are appended, then sorted
ProcessMessages ==
  /\ pc = "process"
  /\ all_topics' = SortRows(all_topics \o AllRows(messages))
  /\ pc' = "summary"
  /\ UNCHANGED <<file_lines, content, segmenter_vars, message_blocks, b,
                 parser_vars, messages, summary, csv_file, write_result,
                 read_result, exit_code>>

\* print_summary, lines 219-235
PrintSummary ==
  /\ pc = "summary"
  /\ summary' = <<SummaryOf(all_topics, Len(messages))>>
  /\ pc' = "csv"
  /\ UNCHANGED <<file_lines, content, segmenter_vars, message_blocks, b,
                 parser_vars, messages, all_topics, csv_file, write_result,
                 read_result, exit_code>>

\* generate_csv, lines 196-213, then main returns
WriteCsv ==
  /\ pc = "csv"
  /\ write_result' = "ok"
  /\ csv_file' = [written |-> TRUE, rows |-> CsvRows(all_topics)]
  /\ exit_code' = <<0>>
  /\ pc' = "exit"
  /\ UNCHANGED <<file_lines, content, segmenter_vars, message_blocks, b,
                 parser_vars, messages, all_topics, summary, read_result>>

\* generate_csv, lines 215-217: open fails and the file is left as it was,
\* or a write fails with some of the rows in the file
WriteCsvError ==
  /\ pc = "csv"
  /\ write_result' = "error"
  /\ \/ csv_file' = csv_file
     \/ \E n \in 0..Len(all_topics) :
          csv_file' = [written |-> TRUE,
                       rows |-> SubSeq(CsvRows(all_topics), 1, n)]
  /\ exit_code' = <<1>>
  /\ pc' = "exit"
  /\ UNCHANGED <<file_lines, content, segmenter_vars, message_blocks, b,
                 parser_vars, messages, all_topics, summary, read_result>>

Next ==
  \/ ReadFile
  \/ ReadNotFound
  \/ ReadError
  \/ SplitStep
  \/ SplitReturn
  \/ SkipBlock
  \/ EnterBlock
  \/ ScanStep
  \/ ScanReturn
  \/ ParseFileReturn
  \/ ProcessMessages
  \/ PrintSummary
  \/ WriteCsv
  \/ WriteCsvError

Spec == Init /\ [][Next]_vars

-----------------------------------------------------------------------------
(* Properties of the block segmenter.                                      *)

\* the segmenter has just returned its blocks to parse_file
SegmenterReturned == pc = "blocks" /\ b = 0

SegmenterLoop == pc = "segment" /\ i < Len(lines)

AllDigits(line) == line # <<>> /\ \A k \in 1..Len(line) : IsDigit(line[k])

\* the three structural patterns as the specification words them
IsTopicDeclaration(line) ==
  \E n \in 1..Len(line) :
    /\ \A k \in 1..n : IsDigit(line[k])
    /\ Len(line) > n
    /\ line[n + 1] = "-"

IsVoteMarker(line) ==
  \E n \in 1..Len(line) :
    /\ Len(line) >= n + 2
    /\ line[1] = ":"
    /\ \A k \in 2..(n + 1) : IsDigit(line[k])
    /\ line[n + 2] = ":"

IsTimestamp(line) ==
  \E d \in {1, 2} : \E sp \in {0, 1} :
    /\ Len(line) >= d + 5 + sp
    /\ \A k \in 1..d : IsDigit(line[k])
    /\ line[d + 1] = ":"
    /\ IsDigit(line[d + 2]) /\ IsDigit(line[d + 3])
    /\ sp = 1 => line[d + 4] = " "
    /\ line[d + 4 + sp] \in {"A", "P"}
    /\ line[d + 5 + sp] = "M"

\* the step of the loop closes the open group and opens one with the line
OpensGroup ==
  /\ blocks' = Append(blocks, JoinNL(current_block))
  /\ current_block' = <<lines[i + 1]>>

\* the step of the loop adds the line to the open group
JoinsGroup ==
  /\ blocks' = blocks
  /\ current_block' = Append(current_block, lines[i + 1])

\* C3: in the segmenter, a non-blank line that is not purely digits starts a
\* new group if and only if the current group is non-empty and the line
\* matches none of the topic-declaration, vote-marker and timestamp
\* patterns; in every other case it is appended (so '3:x' starts a group).
C3_SplitRule ==
  [][(SegmenterLoop /\ ~AllDigits(lines[i + 1])) =>
       LET line == lines[i + 1]
           fresh == /\ current_block # <<>>
                    /\ ~IsTopicDeclaration(line)
                    /\ ~IsVoteMarker(line)
                    /\ ~IsTimestamp(line)
       IN  IF fresh THEN OpensGroup ELSE JoinsGroup]_vars

\* C4: in the segmenter, a line of digits only never starts a new group when
\* the current group is non-empty: it is appended to the current group.
C4_CountLineStays ==
  [][(SegmenterLoop /\ current_block # <<>> /\ AllDigits(lines[i + 1])) =>
       JoinsGroup]_vars

\* a count line was appended right after a vote marker
C4_Witness ==
  /\ pc = "segment"
  /\ Len(current_block) >= 2
  /\ AllDigits(current_block[Len(current_block)])
  /\ IsVoteMarker(current_block[Len(current_block) - 1])
  /\ i >= 2
  /\ lines[i] = current_block[Len(current_block)]

NonBlank(raw) == \E k \in 1..Len(raw) : ~IsSpace(raw[k])

\* raw without its leading and trailing white space (raw is not blank)
Trimmed(raw) ==
  LET inked == {k \in 1..Len(raw) : ~IsSpace(raw[k])}
      first == CHOOSE k \in inked : \A j \in inked : k <= j
      last  == CHOOSE k \in inked : \A j \in inked : j <= k
  IN  SubSeq(raw, first, last)

\* the stripped non-blank lines of the input file, in order
InputLines ==
  LET kept == SelectSeq(file_lines, NonBlank)
  IN  [k \in 1..Len(kept) |-> Trimmed(kept[k])]

\* the lines of a group: the text between its "\n"
GroupLines(block) ==
  LET cuts == {k \in 1..Len(block) : block[k] = NL} \cup {0, Len(block) + 1}
      from(n) == CHOOSE k \in cuts :
                   Cardinality({j \in cuts : j < k}) = n - 1
  IN  [n \in 1..(Cardinality(cuts) - 1) |->
         SubSeq(block, from(n) + 1, from(n + 1) - 1)]

RECURSIVE GroupsLines(_)
GroupsLines(bs) ==
  IF bs = <<>> THEN <<>> ELSE GroupLines(Head(bs)) \o GroupsLines(Tail(bs))

\* the lines after the first that closed the open group
SplitLines == {k \in 2..Len(InputLines) : LooksLikeNewName(InputLines[k])}

\* C9: the segmenter's output is a partition of the input's non-blank lines:
\* no group is empty, no blank line is in a group, the groups concatenated
\* are the stripped non-blank input lines in their order, and the number of
\* groups is 0 for an input with no non-blank line and otherwise 1 plus the
\* number of lines that triggered a split.
C9_Partition ==
  SegmenterReturned =>
    /\ \A n \in 1..Len(message_blocks) :
         /\ message_blocks[n] # <<>>
         /\ \A k \in 1..Len(GroupLines(message_blocks[n])) :
              NonBlank(GroupLines(message_blocks[n])[k])
    /\ GroupsLines(message_blocks) = InputLines
    /\ Len(message_blocks) =
         IF InputLines = <<>> THEN 0 ELSE 1 + Cardinality(SplitLines)

\* a file with a blank line and a padded line, cut into two groups or more,
\* one of them of several lines
C9_Witness ==
  /\ SegmenterReturned
  /\ \E k \in 1..Len(file_lines) : ~NonBlank(file_lines[k])
  /\ \E k \in 1..Len(file_lines) :
       NonBlank(file_lines[k]) /\ Trimmed(file_lines[k]) # file_lines[k]
  /\ Len(message_blocks) >= 2
  /\ \E n \in 1..Len(message_blocks) : Len(GroupLines(message_blocks[n])) >= 2

-----------------------------------------------------------------------------
(* Properties of the message parser.                                       *)

ScanLoop == pc = "scan" /\ pi < Len(plines)

ScanDone == pc = "scan" /\ pi >= Len(plines)

\* a line of the form :<digits>: and nothing else
MarkerLine(line) ==
  /\ Len(line) >= 3
  /\ line[1] = ":" /\ line[Len(line)] = ":"
  /\ \A k \in 2..(Len(line) - 1) : IsDigit(line[k])

\* a line of the form <digits>-<rest> with some rest
TopicLine(line) ==
  \E n \in 1..Len(line) :
    /\ \A k \in 1..n : IsDigit(line[k])
    /\ Len(line) >= n + 2
    /\ line[n + 1] = "-"

Keys(d) == {d[n][1] : n \in 1..Len(d)}

ValuesAt(d, k) == {d[n][2] : n \in {j \in 1..Len(d) : d[j][1] = k}}

\* d holds exactly one entry for k, and it is v
Binds(d, k, v) ==
  Cardinality({n \in 1..Len(d) : d[n][1] = k}) = 1 /\ ValuesAt(d, k) = {v}

\* d1 and d2 agree on every key but k
SameElsewhere(d1, d2, k) ==
  \A key \in (Keys(d1) \cup Keys(d2)) \ {k} : ValuesAt(d1, key) = ValuesAt(d2, key)

\* the line at 0-based index k is a vote marker followed by an integer
CountedMarker(ls, k) ==
  MarkerLine(ls[k + 1]) /\ k + 1 < Len(ls) /\ IntParses(ls[k + 2])

\* C5: when a vote marker at scan index i >= 2 is followed by a line that
\* does not parse as an integer, the marker writes nothing to votes and the
\* scan index advances by exactly one; the following line is evaluated on
\* the next iteration like any other line: a topic line is recorded in
\* topics, a vote marker followed by an integer records its vote.
C5_MalformedCount ==
  [][/\ (ScanLoop /\ MarkerLine(plines[pi + 1]) /\ pi + 1 < Len(plines)
           /\ ~IntParses(plines[pi + 2]))
        => (votes' = votes /\ pi' = pi + 1 /\ pc' = "scan")
     /\ (ScanLoop /\ pi > 2 /\ MarkerLine(plines[pi])
           /\ ~IntParses(plines[pi + 1]))
        => /\ TopicLine(plines[pi + 1]) =>
                Binds(topics', TopicNum(plines[pi + 1]), TopicSubject(plines[pi + 1]))
           /\ CountedMarker(plines, pi) =>
                Binds(votes', VoteNum(plines[pi + 1]), IntValue(plines[pi + 2]))
    ]_vars

\* a marker with a topic line after it was passed: the topic is recorded and
\* the marker left no vote
C5_Witness ==
  /\ pc = "scan"
  /\ \E k \in 2..(Len(plines) - 2) :
       /\ MarkerLine(plines[k + 1])
       /\ TopicLine(plines[k + 2])
       /\ pi >= k + 2
       /\ Binds(topics, TopicNum(plines[k + 2]), TopicSubject(plines[k + 2]))
       /\ VoteNum(plines[k + 1]) \notin Keys(votes)

AliceMessage ==
  [author    |-> <<"A", "l", "i", "c", "e">>,
   timestamp |-> <<"9", ":", "3", "0", " ", "A", "M">>,
   topics    |-> << <<1, <<"P", "i", "z", "z", "a", " ", "F", "r", "i", "d", "a", "y">> >>,
                    <<2, <<"R", "e", "m", "o", "t", "e", " ", "W", "o", "r", "k">> >> >>,
   votes     |-> << <<1, 12>> >>]

\* C8: scanning a block from index 2, a vote marker :N: followed by a line
\* that parses as an integer v sets votes[N] = v and the count line is
\* skipped; a topic line N-rest sets topics[N] = trim(rest); a later entry
\* for the same N replaces the earlier one; every other line changes neither
\* map.  The block Alice / 9:30 AM / 1-Pizza Friday / :1: / 12 /
\* 2-Remote Work gives author Alice, timestamp 9:30 AM, topics
\* {1: Pizza Friday, 2: Remote Work}, votes {1: 12}.
C8_ScanRules ==
  [][/\ ScanLoop =>
          LET line == plines[pi + 1]
          IN  IF CountedMarker(plines, pi)
              THEN /\ Binds(votes', VoteNum(line), IntValue(plines[pi + 2]))
                   /\ SameElsewhere(votes, votes', VoteNum(line))
                   /\ topics' = topics
                   /\ pi' = pi + 2
              ELSE IF TopicLine(line)
              THEN /\ Binds(topics', TopicNum(line), TopicSubject(line))
                   /\ SameElsewhere(topics, topics', TopicNum(line))
                   /\ votes' = votes
                   /\ pi' = pi + 1
              ELSE topics' = topics /\ votes' = votes /\ pi' = pi + 1
     /\ (ScanDone /\ plines = ExampleAlice) =>
          messages' = Append(messages, AliceMessage)
    ]_vars

\* the example block was parsed, and in a second block later topic lines
\* replaced both subjects, each number keeping its place
C8_Witness ==
  /\ pc = "process"
  /\ Len(messages) = 2
  /\ messages[1] = AliceMessage
  /\ GroupLines(message_blocks[2]) = ExampleAlice \o TwoTopics
  /\ messages[2].topics = << <<1, <<"A">> >>, <<2, <<"B">> >> >>
  /\ messages[2].votes = << <<1, 12>> >>

\* C10: only lines at index 2 or later add entries to topics or votes, even
\* when line 1 is no timestamp and is itself a topic line or a vote marker.
\* The block Alice / 1-Pizza / :1: / 5 gives topics {} and votes {1: 5} and
\* so no report row; with a vote marker at index 1 the count line at index 2
\* is ignored and no vote is recorded.
C10_ScanFromIndexTwo ==
  /\ pc = "scan" =>
       /\ \A n \in 1..Len(topics) :
            \E k \in 2..(Len(plines) - 1) :
              /\ k < pi
              /\ TopicLine(plines[k + 1])
              /\ TopicNum(plines[k + 1]) = topics[n][1]
              /\ TopicSubject(plines[k + 1]) = topics[n][2]
       /\ \A n \in 1..Len(votes) :
            \E k \in 2..(Len(plines) - 2) :
              /\ k < pi
              /\ CountedMarker(plines, k)
              /\ VoteNum(plines[k + 1]) = votes[n][1]
              /\ IntValue(plines[k + 2]) = votes[n][2]
  /\ (ScanDone /\ plines = ExampleLate) =>
       (topics = <<>> /\ votes = << <<1, 5>> >>)
  /\ (pc \in {"summary", "csv"} /\ file_lines = ExampleLate) => all_topics = <<>>
  /\ (ScanDone /\ Len(plines) = 3 /\ MarkerLine(plines[2])) => votes = <<>>

\* both cases at the end of one run: the block Alice / 1-Pizza / :1: / 5,
\* then a block whose marker is at index 1 and its count at index 2
C10_Witness ==
  /\ pc = "summary"
  /\ Len(message_blocks) = 2 /\ Len(messages) = 2
  /\ GroupLines(message_blocks[1]) = ExampleLate
  /\ messages[1].topics = <<>> /\ messages[1].votes = << <<1, 5>> >>
  /\ Len(GroupLines(message_blocks[2])) = 3
  /\ MarkerLine(GroupLines(message_blocks[2])[2])
  /\ AllDigits(GroupLines(message_blocks[2])[3])
  /\ messages[2].votes = <<>>
  /\ all_topics = <<>>

NumLines(block) == 1 + Cardinality({k \in 1..Len(block) : block[k] = NL})

\* the blocks of two lines or more among the first n
LongBlocks(n) == {k \in 1..n : NumLines(message_blocks[k]) >= 2}

\* the k-th of them
LongBlock(n, k) ==
  CHOOSE j \in LongBlocks(n) : Cardinality({h \in LongBlocks(n) : h < j}) = k - 1

\* m holds what the lines ls alone give: the author, every topic declared
\* from index 2 on, and nothing that ls does not declare
ParsedFrom(m, ls) ==
  /\ m.author = ls[1]
  /\ Keys(m.topics) =
       {TopicNum(ls[k]) : k \in {j \in 3..Len(ls) : TopicLine(ls[j])}}
  /\ Keys(m.votes) \subseteq
       {VoteNum(ls[k]) : k \in {j \in 3..Len(ls) : MarkerLine(ls[j])}}
  /\ \A n \in 1..Len(m.topics) :
       \E k \in 3..Len(ls) :
         TopicLine(ls[k]) /\ m.topics[n] = <<TopicNum(ls[k]), TopicSubject(ls[k])>>

\* C6: parse_file produces a Message for a block if and only if the block
\* has at least 2 lines: a single-line block gives none and no error, every
\* longer block gives exactly one whatever its content; the Messages are in
\* the order of their blocks, and each is what its own block gives, whatever
\* the other blocks are.
C6_OneMessagePerLongBlock ==
  pc \in {"blocks", "process"} =>
    /\ exit_code = <<>>
    /\ Len(messages) = Cardinality(LongBlocks(b))
    /\ \A k \in 1..Len(messages) :
         ParsedFrom(messages[k], GroupLines(message_blocks[LongBlock(b, k)]))

\* a single-line block, then two longer blocks of which the second has no
\* timestamp
C6_Witness ==
  /\ pc = "process"
  /\ Len(message_blocks) = 3
  /\ NumLines(message_blocks[1]) = 1
  /\ Len(messages) = 2
  /\ messages[2].timestamp = Unknown
  /\ messages[1].timestamp # Unknown

-----------------------------------------------------------------------------
(* Properties of the aggregation and of the run as a whole.                *)

\* process_messages has just returned
Processed == pc = "summary"

\* a topic of a message: <<index of the message, position in its topics>>
Slots ==
  UNION {{<<m, n>> : n \in 1..Len(messages[m].topics)} : m \in 1..Len(messages)}

\* the row the claim gives the topic: the votes of the same message, 0 when
\* it has none for the number
RowOf(s) ==
  LET m   == messages[s[1]]
      num == m.topics[s[2]][1]
  IN  [creator_name |-> m.author,
       topic_number |-> num,
       subject      |-> m.topics[s[2]][2],
       votes        |-> IF num \in Keys(m.votes)
                        THEN CHOOSE v \in ValuesAt(m.votes, num) : TRUE ELSE 0]

Occurrences(rows, r) == Cardinality({k \in 1..Len(rows) : rows[k] = r})

\* C1: after process_messages the report rows are exactly one row (author,
\* topic_number, subject, votes) for every Message and every topic number of
\* its topics, with the votes of that same Message for the number, 0 when it
\* has none; a vote without a topic in its Message gives no row, and a vote
\* never counts for another Message's topic of the same number.
C1_RowsPerMessageTopic ==
  Processed =>
    /\ Len(all_topics) = Cardinality(Slots)
    /\ \A s \in Slots :
         Occurrences(all_topics, RowOf(s)) = Cardinality({t \in Slots : RowOf(t) = RowOf(s)})

\* two messages declare the same topic number, one has a vote for it and the
\* other has not, and the other holds a vote for a number it has no topic
\* for while the first has that topic
C1_Witness ==
  /\ Processed
  /\ \E m1, m2 \in 1..Len(messages) :
     \E num \in Keys(messages[m1].topics) : \E orphan \in Keys(messages[m2].votes) :
       /\ m1 # m2
       /\ num \in Keys(messages[m2].topics)
       /\ num \in Keys(messages[m1].votes) \ Keys(messages[m2].votes)
       /\ orphan \in Keys(messages[m2].votes) \ Keys(messages[m2].topics)
       /\ orphan \in Keys(messages[m1].topics) \ Keys(messages[m1].votes)
       /\ \E k \in 1..Len(all_topics) :
            all_topics[k].votes > 0 /\ all_topics[k].creator_name = messages[m1].author

\* the rows in the order they were met: message by message, each message's
\* topics in their order
Encountered == AllRows(messages)

SameKey(x, y) == x.votes = y.votes /\ x.creator_name = y.creator_name

\* the rows of rows with the key of r, in their order
WithKeyOf(rows, r) == SelectSeq(rows, LAMBDA x : SameKey(x, r))

\* C2: after process_messages, of two adjacent rows the first has at least
\* the votes of the second; with equal votes its creator_name is not after
\* the second's; with both equal the two are in the order they were met.
\* The sorted list is a permutation of the rows met.
C2_SortedStable ==
  Processed =>
    /\ \A k \in 1..(Len(all_topics) - 1) :
         LET r1 == all_topics[k]
             r2 == all_topics[k + 1]
         IN  /\ r1.votes >= r2.votes
             /\ r1.votes = r2.votes => ~StrLess(r2.creator_name, r1.creator_name)
    /\ Len(all_topics) = Len(Encountered)
    /\ \A k \in 1..Len(Encountered) :
         WithKeyOf(all_topics, Encountered[k]) = WithKeyOf(Encountered, Encountered[k])

\* the sort moved a row, a tie on votes was broken by the name, and two
\* different rows of one key kept their order
C2_Witness ==
  /\ Processed
  /\ all_topics # Encountered
  /\ \E k \in 1..(Len(all_topics) - 1) :
       /\ all_topics[k].votes = all_topics[k + 1].votes
       /\ StrLess(all_topics[k].creator_name, all_topics[k + 1].creator_name)
  /\ \E k \in 1..(Len(all_topics) - 1) :
       /\ SameKey(all_topics[k], all_topics[k + 1])
       /\ all_topics[k] # all_topics[k + 1]

ReadFailed == read_result \in {"not_found", "error"}

\* C7: the run of main ends with exit code 1 if reading the input file fails
\* (not found or any other error) or writing the output file fails, and with
\* 0 otherwise; after a read failure none of process_messages, print_summary
\* and generate_csv runs, and no output file is written.
C7_ExitCode ==
  /\ pc = "exit" =>
       exit_code = <<IF ReadFailed \/ write_result = "error" THEN 1 ELSE 0>>
  /\ pc # "exit" => exit_code = <<>>
  /\ ReadFailed =>
       /\ pc = "exit"
       /\ all_topics = <<>>
       /\ summary = <<>>
       /\ write_result = "pending"
       /\ ~csv_file.written

\* a run of a file that holds rows ended by a read error
C7_Witness ==
  /\ pc = "exit"
  /\ read_result = "error"
  /\ exit_code = <<1>>
  /\ file_lines = ExampleAlice

====
